---- MODULE Spec2Model ----
(***************************************************************************)
(* FrustumIntersection of @here/harp-mapview: the root tile selection of   *)
(* updateFrustum and the quadtree traversal of compute.                    *)
(*                                                                         *)
(* Numbers: longitudes, world coordinates and elevations are integers (one *)
(* unit is one degree of longitude); areas are integers, with Infinity a   *)
(* value larger than every computed area.                                  *)
(***************************************************************************)
EXTENDS Integers, Sequences, FiniteSets

\* ------------------------------------------------------------------ bounds

\* compute is called with maxTileLevel 0 or MaxTileLevelBound.
MaxTileLevelBound == 1

\* ------------------------------------------------------- program constants

\* The area given to the map entries of the roots (compute).
Infinity == 1000000000

\* The upper clamp of offsetRange (computeRequiredInitialRootTileKeys).
MaxOffsetRange == 7

\* The default bit-shift of the composite key: 2^4 offsets can be stored.
OffsetBits == 4

\* The weight of the lowest offset bit in a composite key. The program uses
\* 2^(53 - 4); the model's morton codes stay below 2^20, so the offset bits
\* sit right above them here.
OffsetBitBase == 1048576

Pow2(n) == IF n = 0 THEN 1 ELSE IF n = 1 THEN 2 ELSE IF n = 2 THEN 4
           ELSE IF n = 3 THEN 8 ELSE IF n = 4 THEN 16 ELSE IF n = 5 THEN 32
           ELSE 64

Abs(x) == IF x < 0 THEN 0 - x ELSE x

\* --------------------------------------------------------------- tile keys

\* TileKey.fromRowColumnLevel
TileKey(row, column, level) == [level |-> level, row |-> row, column |-> column]

\* TileKey.mortonCode: a leading 1 above the interleaved column/row bits.
RECURSIVE MortonCode(_)
MortonCode(tileKey) ==
    IF tileKey.level = 0 THEN 1
    ELSE 4 * MortonCode(TileKey(tileKey.row \div 2, tileKey.column \div 2,
                                tileKey.level - 1))
         + (tileKey.column % 2) + 2 * (tileKey.row % 2)

\* The offset bits of a composite key: the offset is moved by half of the
\* storable offsets and wrapped into 0..2^OffsetBits-1.
GetShiftedOffset(offset) ==
    ((offset + Pow2(OffsetBits) \div 2) % Pow2(OffsetBits)) * OffsetBitBase

\* TileOffsetUtils.getKeyForTileKeyAndOffset
GetKeyForTileKeyAndOffset(tileKey, offset) ==
    MortonCode(tileKey) + GetShiftedOffset(offset)

\* TilingScheme.getSubTileKeys of a quadtree: the four children, in order.
GetSubTileKeys(tileKey) ==
    << TileKey(2 * tileKey.row,     2 * tileKey.column,     tileKey.level + 1),
       TileKey(2 * tileKey.row,     2 * tileKey.column + 1, tileKey.level + 1),
       TileKey(2 * tileKey.row + 1, 2 * tileKey.column,     tileKey.level + 1),
       TileKey(2 * tileKey.row + 1, 2 * tileKey.column + 1, tileKey.level + 1) >>

\* tileKey is a (proper or improper) descendant of ancestor.
RECURSIVE IsDescendant(_, _)
IsDescendant(tileKey, ancestor) ==
    IF tileKey.level < ancestor.level THEN FALSE
    ELSE IF tileKey.level = ancestor.level THEN tileKey = ancestor
    ELSE IsDescendant(TileKey(tileKey.row \div 2, tileKey.column \div 2,
                              tileKey.level - 1), ancestor)

\* class TileKeyEntry
TileKeyEntry(tileKey, area, offset, minElevation, maxElevation) ==
    [tileKey |-> tileKey, area |-> area, offset |-> offset,
     minElevation |-> minElevation, maxElevation |-> maxElevation]

\* ---------------------------------------------------------------- geometry

\* A box (geographic or world): three closed intervals.
Box(minX, maxX, minY, maxY, minZ, maxZ) ==
    [minX |-> minX, maxX |-> maxX, minY |-> minY, maxY |-> maxY,
     minZ |-> minZ, maxZ |-> maxZ]

\* TilingScheme.getGeoBox: x is the longitude in -180..180, y the latitude in
\* -90..90, and the altitude is 0.
TilingSchemeGetGeoBox(tileKey) ==
    Box((tileKey.column * 360) \div Pow2(tileKey.level) - 180,
        ((tileKey.column + 1) * 360) \div Pow2(tileKey.level) - 180,
        (tileKey.row * 180) \div Pow2(tileKey.level) - 90,
        ((tileKey.row + 1) * 180) \div Pow2(tileKey.level) - 90,
        0, 0)

\* getGeoBox: the tile's box, moved by 360 degrees of longitude per offset.
GetGeoBox(childTileKey, offset) ==
    LET geoBox == TilingSchemeGetGeoBox(childTileKey)
        longitudeOffset == 360 * offset
    IN  [geoBox EXCEPT !.maxX = @ + longitudeOffset,
                       !.minX = @ + longitudeOffset]

\* Projection.projectBox: the world is 360 units wide and 180 high, with
\* longitude -180 at x = 0 and latitude -90 at y = 0.
ProjectBox(geoBox) ==
    Box(geoBox.minX + 180, geoBox.maxX + 180, geoBox.minY + 90, geoBox.maxY + 90,
        geoBox.minZ, geoBox.maxZ)

\* Projection.unprojectPoint: the longitude of a world x.
UnprojectPointLongitude(x) == x - 180

\* THREE.Frustum.intersectsBox, OrientedBox3.intersects: the frustum's
\* footprint is a box; touching counts as intersecting.
FrustumIntersectsBox(frustum, box) ==
    /\ box.maxX >= frustum.minX /\ box.minX <= frustum.maxX
    /\ box.maxY >= frustum.minY /\ box.minY <= frustum.maxY
    /\ box.maxZ >= frustum.minZ /\ box.minZ <= frustum.maxZ

\* MapTileCuller.frustumIntersectsTileBox: the culler's own, tighter region.
CullerIntersectsTileBox(culler, box) ==
    /\ box.maxX >= culler.minX /\ box.minX <= culler.maxX
    /\ box.maxY >= culler.minY /\ box.minY <= culler.maxY

\* THREE.Vector3.applyMatrix4 with a matrix that scales x and y.
ApplyMatrix4(x, y, matrix) == [x |-> matrix.sx * x, y |-> matrix.sy * y]

\* The shoelace sum over the closed contour: p runs one index behind q.
RECURSIVE ShoelaceSum(_, _)
ShoelaceSum(contour, q) ==
    IF q > Len(contour) THEN 0
    ELSE LET p == IF q = 1 THEN Len(contour) ELSE q - 1
         IN  contour[p].x * contour[q].y - contour[q].x * contour[p].y
             + ShoelaceSum(contour, q + 1)

Min2(a, b) == IF a < b THEN a ELSE b
Max2(a, b) == IF a > b THEN a ELSE b

\* ------------------------------------------------------------------- state

VARIABLES
    projectionType,            \* mapView.projection.type
    m_extendedFrustumCulling,  \* constructor argument
    m_tileWrappingEnabled,     \* constructor argument
    m_camera,                  \* the camera as updateFrustum last read it
    m_frustum,                 \* the frustum set by updateFrustum
    m_viewProjectionMatrix,    \* the matrix set by updateFrustum
    m_mapTileCuller,           \* the pre-culler's region, set by setup()
    m_rootTileKeys,            \* the root list
    m_tileKeyEntries,          \* the result map: composite key -> TileKeyEntry
    pc,                        \* position of the running compute call, or "idle"
    args,                      \* the arguments of the running compute call
    calculationFinal,          \* local of compute
    workList,                  \* local of compute
    tileEntry,                 \* local of compute: the entry being subdivided
    childIndex,                \* position in getSubTileKeys(tileEntry.tileKey)
    geoBox,                    \* local of compute: the geo box of the child
    result,                    \* the Result the last compute call returned
    earlierResult,             \* the Result the caller holds from the call before
    tested,                    \* history: the children whose area was computed
    queried,                   \* history: the elevation ranges read
    popped,                    \* history: the entries popped, and what was decided
    staleAtStart,              \* history: the map held a non-root key before the clear
    failedAssert               \* the assertion that failed in the call, or "none"

vars == << projectionType, m_extendedFrustumCulling, m_tileWrappingEnabled,
           m_camera, m_frustum, m_viewProjectionMatrix, m_mapTileCuller,
           m_rootTileKeys, m_tileKeyEntries, pc, args, calculationFinal,
           workList, tileEntry, childIndex, geoBox, result, earlierResult,
           tested, queried, popped, staleAtStart, failedAssert >>

config == << projectionType, m_extendedFrustumCulling, m_tileWrappingEnabled >>
frustumState == << m_camera, m_frustum, m_viewProjectionMatrix, m_mapTileCuller >>
history == << tested, queried, popped, staleAtStart >>

\* ------------------------------------------------------------------ inputs

ProjectionTypes == {"Planar", "Spherical"}

\* Cameras: the world x of the camera position, the length e -> d2 that the
\* pitch, field of view, aspect and height give (worldLengthHorizontal), the
\* footprint of the frustum and the x and y scale of the view-projection
\* matrix the camera matrices give, and the margin by which the pre-culler's
\* region is tighter than the frustum.
Camera(x, reach, frustum, sx, sy, cullMargin) ==
    [x |-> x, reach |-> reach, frustum |-> frustum,
     matrix |-> [sx |-> sx, sy |-> sy], cullMargin |-> cullMargin]

Cameras ==
    { Camera(180,  0,    Box(100, 170, 0, 80, -10, 100),      1, 1, 0),
      Camera(360,  100,  Box(170, 550, 80, 100, -10, 100),    -2, 1, 0),
      Camera(-3060, 300, Box(-3100, -3050, 100, 120, -10, 100), 1, 1, 10),
      Camera(540,  2000, Box(500, 600, 0, 40, -10, 100),      1, 3, 0),
      Camera(0,    -100, Box(-50, 50, 60, 70, -10, 100),      1, 1, 60) }

\* Data sources, each with its zoom level at the same index.
DataSourceLists ==
    { [dataSources |-> << >>,                 zoomLevels |-> << >>],
      [dataSources |-> << "always" >>,        zoomLevels |-> << 0 >>],
      [dataSources |-> << "never", "level" >>, zoomLevels |-> << 1, 0 >>],
      [dataSources |-> << "level" >>,         zoomLevels |-> << 1 >>] }

\* Elevation range sources: none, one of another tiling scheme, and sources of
\* the traversed scheme: all readings final, one tile approximate, all tiles
\* far above the frustum.
ElevationRangeSources ==
    { [defined |-> FALSE, tilingScheme |-> "none", base |-> 0, approximate |-> {}],
      [defined |-> TRUE, tilingScheme |-> "geographic", base |-> 0,
       approximate |-> {TileKey(0, 0, 1), TileKey(0, 1, 1)}],
      [defined |-> TRUE, tilingScheme |-> "webMercator", base |-> 0, approximate |-> {}],
      [defined |-> TRUE, tilingScheme |-> "webMercator", base |-> 0,
       approximate |-> {TileKey(0, 1, 1)}],
      [defined |-> TRUE, tilingScheme |-> "webMercator", base |-> 1000,
       approximate |-> {}] }

ComputeArgs ==
    { [tilingScheme |-> "webMercator", maxTileLevel |-> l,
       elevationRangeSource |-> e, zoomLevels |-> d.zoomLevels,
       dataSources |-> d.dataSources] :
      l \in {0, MaxTileLevelBound}, e \in ElevationRangeSources, d \in DataSourceLists }

NoArgs == [tilingScheme |-> "webMercator", maxTileLevel |-> 0,
           elevationRangeSource |-> [defined |-> FALSE, tilingScheme |-> "none",
                                     base |-> 0, approximate |-> {}],
           zoomLevels |-> << >>, dataSources |-> << >>]

NoEntry == TileKeyEntry(TileKey(0, 0, 0), 0, 0, 0, 0)

NoBox == Box(0, 0, 0, 0, 0, 0)

\* DataSource.shouldSubdivide
ShouldSubdivide(ds, zoomLevel, tileKey) ==
    CASE ds = "always" -> TRUE
      [] ds = "never"  -> FALSE
      [] ds = "level"  -> tileKey.level <= zoomLevel

\* ElevationRangeSource.getElevationRange
GetElevationRange(source, tileKey) ==
    LET minElevation == source.base + 10 * tileKey.level + tileKey.column
    IN  [minElevation |-> minElevation,
         maxElevation |-> minElevation + tileKey.row + 5,
         calculationStatus |-> IF tileKey \in source.approximate
                               THEN "PendingApproximate" ELSE "FinalPrecise"]

\* ------------------------------------------------------- computeSubTileArea

\* The shoelace area of the box's ground contour (z = 0), projected by the
\* view-projection matrix; the contour is closed by its first point.
ContourArea(tileBounds) ==
    LET contour ==
           << ApplyMatrix4(tileBounds.minX, tileBounds.minY, m_viewProjectionMatrix),
              ApplyMatrix4(tileBounds.maxX, tileBounds.minY, m_viewProjectionMatrix),
              ApplyMatrix4(tileBounds.maxX, tileBounds.maxY, m_viewProjectionMatrix),
              ApplyMatrix4(tileBounds.minX, tileBounds.maxY, m_viewProjectionMatrix),
              ApplyMatrix4(tileBounds.minX, tileBounds.minY, m_viewProjectionMatrix) >>
    IN  Abs(ShoelaceSum(contour, 1)) \div 2

\* Faulty variant of Box3Area: the pre-culler is asked whatever the flag is.
Box3AreaCullerAlways(tileBounds) ==
    IF /\ CullerIntersectsTileBox(m_mapTileCuller, tileBounds)
       /\ FrustumIntersectsBox(m_frustum, tileBounds)
    THEN ContourArea(tileBounds)
    ELSE 0

\* The Box3 branch: the pre-culler (under extended culling) and the precise
\* test, then the area of the projected ground contour.
Box3Area(tileBounds) ==
    IF /\ (~m_extendedFrustumCulling
             \/ CullerIntersectsTileBox(m_mapTileCuller, tileBounds))
       /\ FrustumIntersectsBox(m_frustum, tileBounds)
    THEN ContourArea(tileBounds)
    ELSE 0

\* The OrientedBox3 branch: the precise test, then the screen-space bounding
\* rectangle of the projected corners.
OrientedBoxArea(tileBounds) ==
    IF ~FrustumIntersectsBox(m_frustum, tileBounds) THEN 0
    ELSE LET a == ApplyMatrix4(tileBounds.minX, tileBounds.minY, m_viewProjectionMatrix)
             b == ApplyMatrix4(tileBounds.maxX, tileBounds.maxY, m_viewProjectionMatrix)
             sizeX == Max2(a.x, b.x) - Min2(a.x, b.x)
             sizeY == Max2(a.y, b.y) - Min2(a.y, b.y)
         IN  sizeX * sizeY

ComputeSubTileArea(tileBounds, isBox3) ==
    IF isBox3 THEN Box3Area(tileBounds) ELSE OrientedBoxArea(tileBounds)

\* ------------------------------------ computeRequiredInitialRootTileKeys

\* Faulty variant of StartOffset: the quotient is rounded down.
StartOffsetFloor(longitude) == longitude \div 360

\* Math.round(longitude / 360): halves round up.
StartOffset(longitude) == (longitude + 180) \div 360

\* Math.ceil(Math.abs(delta / 360) * Math.SQRT2): the least n with
\* 360 n >= |delta| sqrt(2), that is (360 n)^2 >= 2 delta^2.
CeilSqrt2(delta) ==
    LET d == Abs(delta)
        candidates == { n \in 0..(d \div 180 + 1) : (360 * n) * (360 * n) >= 2 * d * d }
    IN  CHOOSE n \in candidates : \A m \in candidates : n <= m

\* THREE.Math.clamp
Clamp(value, lo, hi) == Max2(lo, Min2(hi, value))

\* Faulty variant of OffsetRange: the range is not clamped.
OffsetRangeUnclamped(camera) ==
    CeilSqrt2(UnprojectPointLongitude(camera.x)
                - UnprojectPointLongitude(camera.x - camera.reach))

OffsetRange(camera) ==
    LET worldGeoPointLongitude == UnprojectPointLongitude(camera.x)
        worldLeftGeoPointLongitude == UnprojectPointLongitude(camera.x - camera.reach)
    IN  Clamp(CeilSqrt2(worldGeoPointLongitude - worldLeftGeoPointLongitude),
              0, MaxOffsetRange)

\* Faulty variant of SingleRootOnly: one root only when both switches are off.
SingleRootOnlyBothOff ==
    LET tileWrappingEnabled == projectionType = "Planar"
    IN  ~tileWrappingEnabled /\ ~m_tileWrappingEnabled

\* !tileWrappingEnabled || !this.m_tileWrappingEnabled
SingleRootOnly ==
    LET tileWrappingEnabled == projectionType = "Planar"
    IN  ~tileWrappingEnabled \/ ~m_tileWrappingEnabled

\* Faulty variant of EmptyRootList: the previous roots are kept.
KeepRootList(roots) == roots

\* this.m_rootTileKeys = []
EmptyRootList(roots) == << >>

\* The entries computeRequiredInitialRootTileKeys pushes on the emptied list.
ComputeRequiredInitialRootTileKeys(camera) ==
    LET rootTileKey == TileKey(0, 0, 0)
    IN  IF SingleRootOnly
        THEN << TileKeyEntry(rootTileKey, 0, 0, 0, 0) >>
        ELSE LET startOffset == StartOffset(UnprojectPointLongitude(camera.x))
                 offsetRange == OffsetRange(camera)
             IN  [ i \in 1..(2 * offsetRange + 1) |->
                     TileKeyEntry(rootTileKey, 0, startOffset - offsetRange + i - 1, 0, 0) ]

\* --------------------------------------------------------------- the map

EmptyMap == [k \in {} |-> NoEntry]

\* Faulty variant of MapSet: the entry set is the only one left in the map.
MapSetAlone(map, key, value) == [k \in {key} |-> value]

\* Map.set
MapSet(map, key, value) ==
    [k \in DOMAIN map \cup {key} |-> IF k = key THEN value ELSE map[k]]

\* Faulty variant of SetRoots: the root's own area is kept.
RECURSIVE SetRootsKeepArea(_, _, _)
SetRootsKeepArea(map, roots, i) ==
    IF i > Len(roots) THEN map
    ELSE SetRootsKeepArea(
             MapSet(map, GetKeyForTileKeyAndOffset(roots[i].tileKey, roots[i].offset),
                    roots[i]),
             roots, i + 1)

\* The root loop of compute: every root is set under its composite key, with
\* area Infinity.
RECURSIVE SetRoots(_, _, _)
SetRoots(map, roots, i) ==
    IF i > Len(roots) THEN map
    ELSE SetRoots(MapSet(map,
                         GetKeyForTileKeyAndOffset(roots[i].tileKey, roots[i].offset),
                         TileKeyEntry(roots[i].tileKey, Infinity, roots[i].offset,
                                      roots[i].minElevation, roots[i].maxElevation)),
                  roots, i + 1)

\* Faulty variant of ReturnedEntries: the Result gets a map of its own, with
\* the entries of the instance's map at the return.
ReturnedEntriesCopy(map) == [shared |-> FALSE, content |-> map]

\* tileKeyEntries: this.m_tileKeyEntries: the Result holds the instance's map
\* itself, not its content.
ReturnedEntries(map) == [shared |-> TRUE, content |-> EmptyMap]

\* No Result yet.
NoResult == [returned |-> FALSE, calculationFinal |-> TRUE,
             tileKeyEntries |-> ReturnedEntries(EmptyMap)]

\* The content, as of now, of the map a Result's tileKeyEntries refers to.
ResultEntries(r) ==
    IF r.tileKeyEntries.shared THEN m_tileKeyEntries ELSE r.tileKeyEntries.content

\* ----------------------------------------------------------------- actions

\* Faulty variant of InitialRootTileKeys: the instance starts with the root
\* of offset 0.
InitialRootTileKeysSingle == << TileKeyEntry(TileKey(0, 0, 0), 0, 0, 0, 0) >>

\* private m_rootTileKeys: TileKeyEntry[] = []
InitialRootTileKeys == << >>

\* The constructor: the fields as initialised, for every projection type and
\* every pair of constructor flags (on a spherical projection the pre-culler
\* is never consulted, so it is taken with extended culling on only).
Init ==
    /\ projectionType \in ProjectionTypes
    /\ m_extendedFrustumCulling \in BOOLEAN
    /\ m_tileWrappingEnabled \in BOOLEAN
    /\ projectionType = "Spherical" => m_extendedFrustumCulling
    /\ m_camera = Camera(0, 0, Box(0, 0, 0, 0, 0, 0), 1, 1, 0)
    /\ m_frustum = Box(0, 0, 0, 0, 0, 0)
    /\ m_viewProjectionMatrix = [sx |-> 1, sy |-> 1]
    /\ m_mapTileCuller = Box(0, 0, 0, 0, 0, 0)
    /\ m_rootTileKeys = InitialRootTileKeys
    /\ m_tileKeyEntries = EmptyMap
    /\ pc = "idle"
    /\ args = NoArgs
    /\ calculationFinal = TRUE
    /\ workList = << >>
    /\ tileEntry = NoEntry
    /\ childIndex = 0
    /\ geoBox = NoBox
    /\ result = NoResult
    /\ earlierResult = NoResult
    /\ tested = {}
    /\ queried = {}
    /\ popped = {}
    /\ staleAtStart = FALSE
    /\ failedAssert = "none"

\* updateFrustum: the matrix and the frustum from the camera, the pre-culler
\* set up under extended culling, and the root list computed anew.
UpdateFrustum(camera) ==
    /\ pc \in {"idle", "returned"}
    /\ m_camera' = camera
    /\ m_viewProjectionMatrix' = camera.matrix
    /\ m_frustum' = camera.frustum
    /\ m_mapTileCuller' =
          IF m_extendedFrustumCulling
          THEN [camera.frustum EXCEPT !.minX = @ + camera.cullMargin,
                                      !.maxX = @ - camera.cullMargin]
          ELSE m_mapTileCuller
    /\ m_rootTileKeys' = EmptyRootList(m_rootTileKeys)
                             \o ComputeRequiredInitialRootTileKeys(camera)
    /\ pc' = "idle"
    /\ UNCHANGED << config, m_tileKeyEntries, args, calculationFinal, workList,
                    tileEntry, childIndex, geoBox, result, earlierResult, history,
                    failedAssert >>

\* The composite keys of the root list.
RootKeys(roots) ==
    { GetKeyForTileKeyAndOffset(roots[i].tileKey, roots[i].offset) : i \in 1..Len(roots) }

\* Faulty variant of Clear: the map is left as the last call filled it.
ClearNothing(map) == map

\* this.m_tileKeyEntries.clear()
Clear(map) == EmptyMap

\* compute, up to the work loop: the map is cleared and seeded with the roots,
\* and the work list is a copy of the root list. The caller keeps the Result
\* it has as the earlier one; the new call has not returned yet.
ComputeStart(a) ==
    /\ pc \in {"idle", "returned"}
    /\ args' = a
    /\ m_tileKeyEntries' = SetRoots(Clear(m_tileKeyEntries), m_rootTileKeys, 1)
    /\ staleAtStart' = (DOMAIN m_tileKeyEntries \ RootKeys(m_rootTileKeys) # {})
    /\ calculationFinal' = TRUE
    /\ workList' = m_rootTileKeys
    /\ pc' = "loop"
    /\ tileEntry' = NoEntry
    /\ childIndex' = 0
    /\ geoBox' = NoBox
    /\ tested' = {}
    /\ queried' = {}
    /\ popped' = {}
    /\ failedAssert' = "none"
    /\ earlierResult' = result
    /\ result' = NoResult
    /\ UNCHANGED << config, frustumState, m_rootTileKeys >>

\* Faulty variant of Proceed: every data source is asked with the first zoom
\* level.
ProceedFirstZoomLevel(tileKey) ==
    \E i \in 1..Len(args.dataSources) :
        ShouldSubdivide(args.dataSources[i], args.zoomLevels[1], tileKey)

\* dataSources.some((ds, i) => ds.shouldSubdivide(zoomLevels[i], tileKey))
Proceed(tileKey) ==
    \E i \in 1..Len(args.dataSources) :
        ShouldSubdivide(args.dataSources[i], args.zoomLevels[i], tileKey)

\* Faulty variant of ExceedsMaxTileLevel: the test lets one more level through.
ExceedsMaxTileLevelPlusOne(tileKey) == tileKey.level > args.maxTileLevel + 1

\* The level test of the work loop.
ExceedsMaxTileLevel(tileKey) == tileKey.level > args.maxTileLevel

\* Faulty variant of Pop: the last entry is read and left on the list.
PopKeep(list) == list

\* workList.pop(): the list without its last entry.
Pop(list) == SubSeq(list, 1, Len(list) - 1)

\* One turn of the work loop up to the child loop: an entry is popped, and is
\* left alone when it is too deep or no data source wants it subdivided.
PopEntry ==
    /\ pc = "loop"
    /\ workList # << >>
    /\ LET popEntry == workList[Len(workList)]
           tileKey == popEntry.tileKey
           uniqueKey == GetKeyForTileKeyAndOffset(tileKey, popEntry.offset)
           decision ==
               IF ExceedsMaxTileLevel(tileKey) THEN "tooDeep"
               ELSE IF ~Proceed(tileKey) THEN "leaf"
               ELSE IF uniqueKey \notin DOMAIN m_tileKeyEntries THEN "assertCached"
               ELSE IF ~(m_tileKeyEntries[uniqueKey].area > 0) THEN "assertArea"
               ELSE "subdivide"
       IN  /\ workList' = Pop(workList)
           /\ popped' = popped \cup {[tileKey |-> tileKey, offset |-> popEntry.offset,
                                      area |-> popEntry.area, decision |-> decision]}
           /\ IF decision = "subdivide"
              THEN /\ pc' = "children"
                   /\ tileEntry' = popEntry
                   /\ childIndex' = 1
                   /\ UNCHANGED failedAssert
              ELSE IF decision \in {"assertCached", "assertArea"}
              THEN /\ pc' = "idle"
                   /\ failedAssert' = decision
                   /\ UNCHANGED << tileEntry, childIndex >>
              ELSE UNCHANGED << pc, tileEntry, childIndex, failedAssert >>
    /\ UNCHANGED << config, frustumState, m_rootTileKeys, m_tileKeyEntries, args,
                    calculationFinal, geoBox, result, earlierResult, tested,
                    queried, staleAtStart >>

\* Faulty variant of ChildOffset: the child gets the next offset.
ChildOffsetNext(parentEntry) == parentEntry.offset + 1

\* const offset = tileEntry.offset
ChildOffset(parentEntry) == parentEntry.offset

\* Faulty variant of WithElevationRange: the lower altitude is left as it is.
WithMaxElevation(box, range) == [box EXCEPT !.maxZ = range.maxElevation]

\* geoBox.southWest.altitude = range.minElevation;
\* geoBox.northEast.altitude = range.maxElevation
WithElevationRange(box, range) ==
    [box EXCEPT !.minZ = range.minElevation, !.maxZ = range.maxElevation]

\* Faulty variant of IsVisibleArea: a child of area 0 is kept too.
IsVisibleAreaOrZero(subTileArea) == subTileArea >= 0

\* The test that decides whether a child is kept.
IsVisibleArea(subTileArea) == subTileArea > 0

\* Faulty variant of UseElevationRangeSource: the tiling schemes are not
\* compared.
UseElevationRangeSourceAnyScheme == args.elevationRangeSource.defined

\* elevationRangeSource !== undefined &&
\* elevationRangeSource.getTilingScheme() === tilingScheme
UseElevationRangeSource ==
    /\ args.elevationRangeSource.defined
    /\ args.elevationRangeSource.tilingScheme = args.tilingScheme

\* Faulty variant of AndFinalPrecise: the flag is the last reading alone.
LastReadingFinalPrecise(current, calculationStatus) ==
    calculationStatus = "FinalPrecise"

\* Faulty variant of AndFinalPrecise: the reading counts only if the child's
\* area is positive.
AndFinalPreciseIfVisible(current, calculationStatus) ==
    LET childTileKey == GetSubTileKeys(tileEntry.tileKey)[childIndex]
        range == GetElevationRange(args.elevationRangeSource, childTileKey)
        box == WithElevationRange(GetGeoBox(childTileKey, ChildOffset(tileEntry)),
                                  range)
    IN  IF IsVisibleArea(ComputeSubTileArea(ProjectBox(box),
                                            projectionType # "Spherical"))
        THEN current /\ calculationStatus = "FinalPrecise"
        ELSE current

\* calculationFinal && range.calculationStatus === CalculationStatus.FinalPrecise
AndFinalPrecise(current, calculationStatus) ==
    current /\ calculationStatus = "FinalPrecise"

\* Faulty variant of ChildKey: the key is computed from the parent's tile key.
ChildKeyOfParent(parentEntry, childTileKey) ==
    GetKeyForTileKeyAndOffset(parentEntry.tileKey, parentEntry.offset)

\* The composite key of a child of the entry being subdivided: the child's
\* tile key with the parent's offset.
ChildKey(parentEntry, childTileKey) ==
    GetKeyForTileKeyAndOffset(childTileKey, parentEntry.offset)

\* The first half of a turn of the child loop: the child's key is asserted
\* new, and its geo box gets the elevation range read from the source.
ChildGeoBox ==
    /\ pc = "children"
    /\ LET subTileKeys == GetSubTileKeys(tileEntry.tileKey)
           childTileKey == subTileKeys[childIndex]
           offset == ChildOffset(tileEntry)
           tileKeyAndOffset == ChildKey(tileEntry, childTileKey)
           range == GetElevationRange(args.elevationRangeSource, childTileKey)
           geoBox0 == GetGeoBox(childTileKey, offset)
       IN  IF tileKeyAndOffset \in DOMAIN m_tileKeyEntries
           THEN /\ failedAssert' = "assertNew"
                /\ pc' = "idle"
                /\ UNCHANGED << calculationFinal, geoBox, queried >>
           ELSE /\ geoBox' =
                      IF UseElevationRangeSource
                      THEN WithElevationRange(geoBox0, range)
                      ELSE geoBox0
                /\ calculationFinal' =
                      IF UseElevationRangeSource
                      THEN AndFinalPrecise(calculationFinal, range.calculationStatus)
                      ELSE calculationFinal
                /\ queried' =
                      IF UseElevationRangeSource
                      THEN queried \cup {[tileKey |-> childTileKey, offset |-> offset,
                                          calculationStatus |-> range.calculationStatus]}
                      ELSE queried
                /\ pc' = "area"
                /\ UNCHANGED failedAssert
    /\ UNCHANGED << config, frustumState, m_rootTileKeys, m_tileKeyEntries, args,
                    workList, tileEntry, childIndex, result, earlierResult,
                    tested, popped, staleAtStart >>

\* The second half: the area of the projected box is computed, and the child
\* is set in the map and pushed when the area is positive.
ChildArea ==
    /\ pc = "area"
    /\ LET subTileKeys == GetSubTileKeys(tileEntry.tileKey)
           childTileKey == subTileKeys[childIndex]
           offset == ChildOffset(tileEntry)
           tileKeyAndOffset == ChildKey(tileEntry, childTileKey)
           obbIntersections == projectionType = "Spherical"
           subTileArea == ComputeSubTileArea(ProjectBox(geoBox), ~obbIntersections)
           subTileEntry == TileKeyEntry(childTileKey, subTileArea, offset,
                                        geoBox.minZ, geoBox.maxZ)
       IN  /\ tested' = tested \cup {[tileKey |-> childTileKey, offset |-> offset,
                                      area |-> subTileArea]}
           /\ IF IsVisibleArea(subTileArea)
              THEN /\ m_tileKeyEntries' =
                         MapSet(m_tileKeyEntries, tileKeyAndOffset, subTileEntry)
                   /\ workList' = Append(workList, subTileEntry)
              ELSE UNCHANGED << m_tileKeyEntries, workList >>
           /\ IF childIndex < Len(subTileKeys)
              THEN /\ childIndex' = childIndex + 1
                   /\ pc' = "children"
                   /\ UNCHANGED tileEntry
              ELSE /\ childIndex' = 0
                   /\ tileEntry' = NoEntry
                   /\ pc' = "loop"
    /\ geoBox' = NoBox
    /\ UNCHANGED << config, frustumState, m_rootTileKeys, args, calculationFinal,
                    result, earlierResult, queried, popped, staleAtStart,
                    failedAssert >>

\* The work list is empty: compute returns a new Result with the map and the
\* flag.
ComputeReturn ==
    /\ pc = "loop"
    /\ workList = << >>
    /\ result' = [returned |-> TRUE, calculationFinal |-> calculationFinal,
                  tileKeyEntries |-> ReturnedEntries(m_tileKeyEntries)]
    /\ pc' = "returned"
    /\ UNCHANGED << config, frustumState, m_rootTileKeys, m_tileKeyEntries, args,
                    calculationFinal, workList, tileEntry, childIndex, geoBox,
                    earlierResult, history, failedAssert >>

Next ==
    \/ \E camera \in Cameras : UpdateFrustum(camera)
    \/ \E a \in ComputeArgs : ComputeStart(a)
    \/ PopEntry
    \/ ChildGeoBox
    \/ ChildArea
    \/ ComputeReturn

Spec == Init /\ [][Next]_vars

\* The instance after the constructor and one updateFrustum, for every
\* camera.
InitUpdated ==
    /\ projectionType \in ProjectionTypes
    /\ m_extendedFrustumCulling \in BOOLEAN
    /\ m_tileWrappingEnabled \in BOOLEAN
    /\ projectionType = "Spherical" => m_extendedFrustumCulling
    /\ m_camera \in Cameras
    /\ m_viewProjectionMatrix = m_camera.matrix
    /\ m_frustum = m_camera.frustum
    /\ m_mapTileCuller =
          IF m_extendedFrustumCulling
          THEN [m_camera.frustum EXCEPT !.minX = @ + m_camera.cullMargin,
                                        !.maxX = @ - m_camera.cullMargin]
          ELSE Box(0, 0, 0, 0, 0, 0)
    /\ m_rootTileKeys = ComputeRequiredInitialRootTileKeys(m_camera)
    /\ m_tileKeyEntries = EmptyMap
    /\ pc = "idle"
    /\ args = NoArgs
    /\ calculationFinal = TRUE
    /\ workList = << >>
    /\ tileEntry = NoEntry
    /\ childIndex = 0
    /\ geoBox = NoBox
    /\ result = NoResult
    /\ earlierResult = NoResult
    /\ tested = {}
    /\ queried = {}
    /\ popped = {}
    /\ staleAtStart = FALSE
    /\ failedAssert = "none"

\* The first compute call on the instance.
FirstCompute(a) == pc = "idle" /\ ComputeStart(a)

NextCall ==
    \/ \E a \in ComputeArgs : FirstCompute(a)
    \/ PopEntry
    \/ ChildGeoBox
    \/ ChildArea
    \/ ComputeReturn

\* One compute call, run to its end: JavaScript runs a call to completion,
\* so each step of the call is taken as long as it can be.
CallSpec ==
    /\ InitUpdated
    /\ [][NextCall]_vars
    /\ WF_vars(PopEntry) /\ WF_vars(ChildGeoBox) /\ WF_vars(ChildArea)
    /\ WF_vars(ComputeReturn)

TypeOK ==
    /\ pc \in {"idle", "loop", "children", "area", "returned"}
    /\ failedAssert \in {"none", "assertCached", "assertArea", "assertNew"}
    /\ calculationFinal \in BOOLEAN

\* ------------------------------------------------------------------ claims

\* The parent of a tile key of level > 0.
Parent(tileKey) == TileKey(tileKey.row \div 2, tileKey.column \div 2, tileKey.level - 1)

\* The children of this call whose area was positive.
Accepted == { t \in tested : t.area > 0 }

\* A compute call is running or has just returned.
InCall == pc \in {"loop", "children", "area", "returned"}

\* C1: whenever a child of a subdivided entry is considered, its composite
\* key is not yet in the result map (the assertion at the top of the child
\* loop never fails); so every insertion of the call made a new key: the map
\* holds one entry per root and per accepted child, each under the key of its
\* own tile key and offset.
C1_NoDuplicateKey ==
    /\ failedAssert # "assertNew"
    /\ pc \in {"children", "area"} =>
          ChildKey(tileEntry, GetSubTileKeys(tileEntry.tileKey)[childIndex])
              \notin DOMAIN m_tileKeyEntries
    /\ InCall =>
          /\ Cardinality(DOMAIN m_tileKeyEntries)
                = Len(m_rootTileKeys) + Cardinality(Accepted)
          /\ \A k \in DOMAIN m_tileKeyEntries :
                GetKeyForTileKeyAndOffset(m_tileKeyEntries[k].tileKey,
                                          m_tileKeyEntries[k].offset) = k

\* C1 witness: a call returned with the same tile key accepted under two
\* offsets, so two entries differ in the offset alone.
C1_Witness ==
    /\ pc = "returned"
    /\ \E t1 \in Accepted, t2 \in Accepted :
          t1.tileKey = t2.tileKey /\ t1.offset # t2.offset

\* C2: a child whose computed area is 0 is not in the result map, was never
\* pushed on the work list (so never popped), and nothing below it with its
\* offset is in the map; a child whose area is positive is in the map, with
\* that area.
C2_PrunedAbsent ==
    \A t \in tested :
        LET key == GetKeyForTileKeyAndOffset(t.tileKey, t.offset)
        IN  IF t.area = 0
            THEN /\ key \notin DOMAIN m_tileKeyEntries
                 /\ \A i \in 1..Len(workList) :
                       ~(workList[i].tileKey = t.tileKey /\ workList[i].offset = t.offset)
                 /\ \A e \in popped : ~(e.tileKey = t.tileKey /\ e.offset = t.offset)
                 /\ \A k \in DOMAIN m_tileKeyEntries :
                       ~(/\ m_tileKeyEntries[k].offset = t.offset
                         /\ IsDescendant(m_tileKeyEntries[k].tileKey, t.tileKey))
            ELSE /\ key \in DOMAIN m_tileKeyEntries
                 /\ m_tileKeyEntries[key].tileKey = t.tileKey
                 /\ m_tileKeyEntries[key].offset = t.offset
                 /\ m_tileKeyEntries[key].area = t.area

\* C2 witness: a call returned after it pruned a child of area 0 and kept a
\* sibling of it, which was subdivided in turn.
C2_Witness ==
    /\ pc = "returned"
    /\ \E t0 \in tested, t1 \in Accepted :
          /\ t0.area = 0
          /\ Parent(t0.tileKey) = Parent(t1.tileKey)
          /\ t0.offset = t1.offset
          /\ \E e \in popped : e.tileKey = t1.tileKey /\ e.offset = t1.offset
                               /\ e.decision = "subdivide"

\* The projection does not wrap, or wrapping is disabled on the instance.
NonWrapping == projectionType # "Planar" \/ ~m_tileWrappingEnabled

\* C3: scenario 1: a non-wrapping projection (a single root entry), one data
\* source that always votes to subdivide and maxTileLevel = 0: the returned
\* map holds the root entry, with unbounded area, and no other entry.
C3_Scenario1OnlyRoot ==
    ( /\ pc = "returned"
      /\ NonWrapping
      /\ Len(m_rootTileKeys) = 1
      /\ args.dataSources = << "always" >>
      /\ args.maxTileLevel = 0 )
    => /\ DOMAIN m_tileKeyEntries = {GetKeyForTileKeyAndOffset(TileKey(0, 0, 0), 0)}
       /\ \A k \in DOMAIN m_tileKeyEntries :
             /\ m_tileKeyEntries[k].tileKey = TileKey(0, 0, 0)
             /\ m_tileKeyEntries[k].area = Infinity

\* C4: a popped entry whose level is greater than maxTileLevel is never
\* subdivided, whatever the data sources vote: no child of such an entry is
\* generated or tested, the entry being subdivided is never that deep, and the
\* popped entry stays in the map.
C4_LeafDetection ==
    /\ pc \in {"children", "area"} => tileEntry.tileKey.level <= args.maxTileLevel
    /\ \A e \in popped :
          e.tileKey.level > args.maxTileLevel =>
             /\ e.decision = "tooDeep"
             /\ ~\E t \in tested : Parent(t.tileKey) = e.tileKey /\ t.offset = e.offset
             /\ GetKeyForTileKeyAndOffset(e.tileKey, e.offset) \in DOMAIN m_tileKeyEntries
    /\ \A t \in tested : t.tileKey.level <= args.maxTileLevel + 1

\* C4 witness: a call returned after it popped an entry deeper than
\* maxTileLevel for which a data source votes yes.
C4_Witness ==
    /\ pc = "returned"
    /\ \E e \in popped :
          /\ e.tileKey.level > args.maxTileLevel
          /\ Proceed(e.tileKey)
          /\ e.decision = "tooDeep"

\* C5: during a call and at its return calculationFinal is true exactly when
\* no elevation range read in the call had a status other than FinalPrecise;
\* the returned flag is that value; and within a call the flag never goes from
\* false to true.
C5_CalculationFinal ==
    /\ [](InCall =>
            (calculationFinal <=> \A q \in queried : q.calculationStatus = "FinalPrecise"))
    /\ [](pc = "returned" => result.calculationFinal = calculationFinal)
    /\ [][(pc \in {"loop", "children", "area"} /\ ~calculationFinal)
              => ~calculationFinal']_vars

\* C5 witness: a call returned false after reading one approximate range
\* among final ones.
C5_Witness ==
    /\ pc = "returned"
    /\ ~result.calculationFinal
    /\ Cardinality({ q \in queried : q.calculationStatus # "FinalPrecise" }) = 1
    /\ Cardinality({ q \in queried : q.calculationStatus = "FinalPrecise" }) >= 3

\* updateFrustum has been called.
Updated == m_camera \in Cameras

\* The (tileKey, offset) pairs the call put in the map.
Pairs ==
    { [tileKey |-> m_rootTileKeys[i].tileKey, offset |-> m_rootTileKeys[i].offset] :
        i \in 1..Len(m_rootTileKeys) }
    \cup { [tileKey |-> t.tileKey, offset |-> t.offset] : t \in Accepted }

C7_SingleRoot ==
    (Updated /\ NonWrapping) =>
        m_rootTileKeys = << TileKeyEntry(TileKey(0, 0, 0), 0, 0, 0, 0) >>

\* C7 witness: updateFrustum ran on a planar projection with wrapping
\* disabled and a camera that reaches far to the side.
C7_Witness ==
    /\ Updated
    /\ projectionType = "Planar"
    /\ ~m_tileWrappingEnabled
    /\ m_camera.reach > 360
    /\ Len(m_rootTileKeys) = 1

\* C8: after updateFrustum on a wrapping projection with wrapping enabled,
\* the root list holds 2r + 1 entries for some r in 0..7, of the level-0 tile,
\* with the consecutive offsets startOffset - r .. startOffset + r, where
\* startOffset is the camera longitude / 360 rounded (halves up).
C8_WrappingRoots ==
    (Updated /\ ~NonWrapping) =>
        LET n == Len(m_rootTileKeys)
            longitude == m_camera.x - 180
        IN  \E r \in 0..MaxOffsetRange :
               /\ n = 2 * r + 1
               /\ 360 * m_rootTileKeys[r + 1].offset - 180 <= longitude
               /\ longitude < 360 * m_rootTileKeys[r + 1].offset + 180
               /\ \A i \in 1..n :
                     /\ m_rootTileKeys[i].tileKey = TileKey(0, 0, 0)
                     /\ m_rootTileKeys[i].offset
                           = m_rootTileKeys[r + 1].offset - r + i - 1
               /\ \A i \in 1..n, j \in 1..n :
                     i # j => m_rootTileKeys[i].offset # m_rootTileKeys[j].offset

\* C8 witness: updateFrustum built 15 roots around a startOffset other than 0.
C8_Witness ==
    /\ Updated
    /\ ~NonWrapping
    /\ Len(m_rootTileKeys) = 15
    /\ m_rootTileKeys[8].offset # 0

\* C9: every entry of the result map has area > 0: Infinity for a root, the
\* computed area for a child; the two assertions before the child loop never
\* fail: the entry being subdivided has a map entry of area > 0.
C9_PositiveAreas ==
    /\ failedAssert \notin {"assertCached", "assertArea"}
    /\ \A k \in DOMAIN m_tileKeyEntries :
          LET e == m_tileKeyEntries[k]
          IN  /\ e.area > 0
              /\ IF e.tileKey.level = 0
                 THEN e.area = Infinity
                 ELSE [tileKey |-> e.tileKey, offset |-> e.offset, area |-> e.area]
                         \in tested
    /\ pc \in {"children", "area"} =>
          LET uniqueKey == GetKeyForTileKeyAndOffset(tileEntry.tileKey, tileEntry.offset)
          IN  /\ uniqueKey \in DOMAIN m_tileKeyEntries
              /\ m_tileKeyEntries[uniqueKey].area > 0

\* C9 witness: a root is being subdivided: its work-list copy has area 0 and
\* its map entry area Infinity.
C9_Witness ==
    /\ pc = "children"
    /\ tileEntry.tileKey.level = 0
    /\ tileEntry.area = 0
    /\ m_tileKeyEntries[GetKeyForTileKeyAndOffset(tileEntry.tileKey,
                                                  tileEntry.offset)].area = Infinity

\* C10: the map a compute call returns holds the entries of that call only:
\* its keys are the keys of the current roots and of the children accepted in
\* the call, whatever the map held before.
C10_OnlyThisCall ==
    pc = "returned" =>
        DOMAIN m_tileKeyEntries
           = RootKeys(m_rootTileKeys)
             \cup { GetKeyForTileKeyAndOffset(t.tileKey, t.offset) : t \in Accepted }

\* C10 witness: a call returned the roots alone although the map held other
\* keys when the call began.
C10_Witness ==
    /\ pc = "returned"
    /\ staleAtStart
    /\ Accepted = {}
    /\ DOMAIN m_tileKeyEntries = RootKeys(m_rootTileKeys)

\* C11: the map of the Result an earlier compute call returned is the
\* instance's map, which a later call clears and rewrites: while the later
\* call runs and once it has returned, the earlier Result's map has the
\* content of the instance's map, which at the return is the content of the
\* later Result's map; and no step of the later call changes the earlier
\* Result's calculationFinal.
C11_EarlierResultAliased ==
    /\ []((InCall /\ earlierResult.returned) =>
            ResultEntries(earlierResult) = m_tileKeyEntries)
    /\ []((pc = "returned" /\ earlierResult.returned) =>
            ResultEntries(earlierResult) = ResultEntries(result))
    /\ [][(pc' \in {"loop", "children", "area", "returned"}) =>
            earlierResult'.calculationFinal
               = (IF pc \in {"loop", "children", "area"} THEN earlierResult
                  ELSE result).calculationFinal]_vars

\* C11 witness: an earlier call returned an approximate result with entries
\* below the roots; the later call returned the roots alone, as final.
C11_Witness ==
    /\ pc = "returned"
    /\ earlierResult.returned
    /\ ~earlierResult.calculationFinal
    /\ result.calculationFinal
    /\ staleAtStart
    /\ DOMAIN ResultEntries(result) = RootKeys(m_rootTileKeys)

\* C12: every compute call terminates with an empty work list: a running call
\* leads to its return; every entry pushed is one level below the entry being
\* subdivided, that entry's level is at most maxTileLevel, and no entry of the
\* work list or of the map has a level greater than maxTileLevel + 1.
C12_Terminates ==
    /\ (pc \in {"loop", "children", "area"}) ~> (pc = "returned" /\ workList = << >>)
    /\ [](InCall =>
            /\ \A i \in 1..Len(workList) :
                  workList[i].tileKey.level <= args.maxTileLevel + 1
            /\ \A k \in DOMAIN m_tileKeyEntries :
                  m_tileKeyEntries[k].tileKey.level <= args.maxTileLevel + 1
            /\ pc \in {"children", "area"} =>
                  tileEntry.tileKey.level <= args.maxTileLevel)
    /\ [][(pc = "area" /\ Len(workList') > Len(workList)) =>
            /\ Len(workList') = Len(workList) + 1
            /\ workList'[Len(workList')].tileKey.level = tileEntry.tileKey.level + 1
            /\ workList'[Len(workList')].offset = tileEntry.offset]_vars

\* C12 witness: a call with 15 roots and the largest maxTileLevel returned
\* after it popped entries of level maxTileLevel + 1.
C12_Witness ==
    /\ pc = "returned"
    /\ workList = << >>
    /\ Len(m_rootTileKeys) = 15
    /\ args.maxTileLevel = MaxTileLevelBound
    /\ \E e \in popped : e.tileKey.level = args.maxTileLevel + 1

\* C13: in a call without an elevation source, or with a source of another
\* tiling scheme than the traversed one, no elevation range is read, every
\* entry of the map has minElevation = maxElevation = 0, calculationFinal is
\* true (and is returned true), and no assertion fails.
C13_NoElevationSource ==
    ( /\ InCall
      /\ \/ ~args.elevationRangeSource.defined
         \/ args.elevationRangeSource.tilingScheme # args.tilingScheme )
    => /\ queried = {}
       /\ \A k \in DOMAIN m_tileKeyEntries :
             /\ m_tileKeyEntries[k].minElevation = 0
             /\ m_tileKeyEntries[k].maxElevation = 0
       /\ pc = "area" => (geoBox.minZ = 0 /\ geoBox.maxZ = 0)
       /\ calculationFinal
       /\ pc = "returned" => result.calculationFinal
       /\ failedAssert = "none"

\* C13 witness: a call with a source of another tiling scheme returned a
\* child for which that source has an approximate range only.
C13_Witness ==
    /\ pc = "returned"
    /\ args.elevationRangeSource.defined
    /\ args.elevationRangeSource.tilingScheme # args.tilingScheme
    /\ \E t \in Accepted : t.tileKey \in args.elevationRangeSource.approximate

\* The children of a popped entry: same offset, parent tile key.
ChildrenOf(e, set) ==
    { t \in set : /\ t.tileKey.level = e.tileKey.level + 1
                  /\ Parent(t.tileKey) = e.tileKey
                  /\ t.offset = e.offset }

\* C14: a popped entry of level at most maxTileLevel is subdivided if and
\* only if some data source, asked with the zoom level of its own index,
\* votes yes for the entry's tile key; when none does, none of its children
\* is tested or in the map and the entry stays in the map; when one does,
\* all its four children have been tested by the return.
C14_SubdivideIffVote ==
    \A e \in popped :
        e.tileKey.level <= args.maxTileLevel =>
           LET vote == \E i \in 1..Len(args.dataSources) :
                          ShouldSubdivide(args.dataSources[i], args.zoomLevels[i],
                                          e.tileKey)
           IN  /\ (e.decision = "subdivide") <=> vote
               /\ ~vote =>
                     /\ e.decision = "leaf"
                     /\ ChildrenOf(e, tested) = {}
                     /\ ChildrenOf(e, { m_tileKeyEntries[k] :
                                          k \in DOMAIN m_tileKeyEntries }) = {}
                     /\ GetKeyForTileKeyAndOffset(e.tileKey, e.offset)
                           \in DOMAIN m_tileKeyEntries
               /\ (vote /\ pc = "returned") =>
                     Cardinality({ t.tileKey : t \in ChildrenOf(e, tested) }) = 4

\* C14 witness: with the sources (never, level) and the zoom levels (1, 0), a
\* call returned after it subdivided a root and left a level-1 entry, within
\* maxTileLevel, as a leaf: the second source was asked with zoom level 0.
C14_Witness ==
    /\ pc = "returned"
    /\ args.dataSources = << "never", "level" >>
    /\ \E e1 \in popped, e2 \in popped :
          /\ e1.tileKey.level = 0 /\ e1.decision = "subdivide"
          /\ e2.tileKey.level = 1 /\ e2.tileKey.level <= args.maxTileLevel
          /\ e2.decision = "leaf"

\* C15: during a call and at its return every root of the root list is in
\* the map under its composite key, as an entry with the root's tile key,
\* area Infinity and the root's offset and elevation bounds: no step of the
\* traversal replaces or removes it.
C15_RootsStay ==
    InCall =>
       \A i \in 1..Len(m_rootTileKeys) :
          LET root == m_rootTileKeys[i]
              key == GetKeyForTileKeyAndOffset(root.tileKey, root.offset)
          IN  /\ key \in DOMAIN m_tileKeyEntries
              /\ m_tileKeyEntries[key]
                    = TileKeyEntry(root.tileKey, Infinity, root.offset,
                                   root.minElevation, root.maxElevation)

\* C15 witness: a call returned 15 roots; one of them was subdivided and all
\* its four children had area 0 (the root is outside the frustum), another
\* has children in the map.
C15_Witness ==
    /\ pc = "returned"
    /\ Len(m_rootTileKeys) = 15
    /\ Cardinality(DOMAIN m_tileKeyEntries) > 15
    /\ \E e \in popped :
          /\ e.tileKey.level = 0
          /\ e.decision = "subdivide"
          /\ Cardinality(ChildrenOf(e, tested)) = 4
          /\ \A t \in ChildrenOf(e, tested) : t.area = 0

\* C16: the root list is the list built from the camera of the most recent
\* updateFrustum, with nothing left of an earlier list (and is empty before
\* the first updateFrustum); only a step of updateFrustum changes it; and
\* compute starts its work list and its map from it.
C16_RootsOnlyByUpdateFrustum ==
    /\ [](m_rootTileKeys = IF Updated
                           THEN ComputeRequiredInitialRootTileKeys(m_camera)
                           ELSE << >>)
    /\ [][(m_rootTileKeys' # m_rootTileKeys) =>
            (pc \in {"idle", "returned"} /\ pc' = "idle" /\ Updated')]_vars
    /\ [][(pc' \in {"loop", "children", "area", "returned"}) =>
            m_rootTileKeys' = m_rootTileKeys]_vars
    /\ [][(pc \in {"idle", "returned"} /\ pc' = "loop") =>
            /\ workList' = m_rootTileKeys
            /\ DOMAIN m_tileKeyEntries' = RootKeys(m_rootTileKeys)]_vars

\* C16 witness: after two compute calls, the last of them seeded with 15
\* roots, updateFrustum replaced the root list by a list of 3 roots.
C16_Witness ==
    /\ pc = "idle"
    /\ earlierResult.returned
    /\ result.returned
    /\ Cardinality({ k \in DOMAIN m_tileKeyEntries :
                        m_tileKeyEntries[k].tileKey.level = 0 }) = 15
    /\ Len(m_rootTileKeys) = 3

\* C17: when the area of an axis-aligned box (planar projection) is computed,
\* the area is 0 if the precise frustum test rejects the box, and is 0 if
\* extended culling is enabled and the pre-culler rejects it; with extended
\* culling disabled the area of a box the precise test accepts is the area of
\* its projected contour, whatever the pre-culler would answer.
C17_AreaTests ==
    [][(pc = "area" /\ projectionType = "Planar") =>
         LET tileBounds == ProjectBox(geoBox)
             precise == FrustumIntersectsBox(m_frustum, tileBounds)
             cheap == CullerIntersectsTileBox(m_mapTileCuller, tileBounds)
         IN  /\ tested' # tested
             /\ \A t \in tested' \ tested :
                   /\ ~precise => t.area = 0
                   /\ (m_extendedFrustumCulling /\ ~cheap) => t.area = 0
                   /\ (~m_extendedFrustumCulling /\ precise) =>
                         t.area = ContourArea(tileBounds)
                   /\ (m_extendedFrustumCulling /\ cheap /\ precise) =>
                         t.area = ContourArea(tileBounds)]_vars

\* C17 witness: with extended culling disabled, a child was accepted whose
\* box the pre-culler would reject.
C17_Witness ==
    /\ projectionType = "Planar"
    /\ ~m_extendedFrustumCulling
    /\ pc = "returned"
    /\ \E t \in Accepted :
          ~CullerIntersectsTileBox(m_mapTileCuller,
                                   ProjectBox(GetGeoBox(t.tileKey, t.offset)))

\* C18: in a call that uses the elevation source (a source is given and has
\* the traversed tiling scheme) every entry of the map below the roots has
\* as minElevation and maxElevation the range the source reports for its tile
\* key; the box whose area is computed has that range as its vertical extent,
\* before and after the projection; and the root entries have 0 and 0.
C18_ElevationCarried ==
    ( /\ InCall
      /\ args.elevationRangeSource.defined
      /\ args.elevationRangeSource.tilingScheme = args.tilingScheme )
    => /\ \A k \in DOMAIN m_tileKeyEntries :
             LET e == m_tileKeyEntries[k]
                 range == GetElevationRange(args.elevationRangeSource, e.tileKey)
             IN  IF e.tileKey.level = 0
                 THEN e.minElevation = 0 /\ e.maxElevation = 0
                 ELSE /\ e.minElevation = range.minElevation
                      /\ e.maxElevation = range.maxElevation
       /\ pc = "area" =>
             LET childTileKey == GetSubTileKeys(tileEntry.tileKey)[childIndex]
                 range == GetElevationRange(args.elevationRangeSource, childTileKey)
             IN  /\ geoBox.minZ = range.minElevation
                 /\ geoBox.maxZ = range.maxElevation
                 /\ ProjectBox(geoBox).minZ = range.minElevation
                 /\ ProjectBox(geoBox).maxZ = range.maxElevation

\* C18 witness: a call that used the source returned two entries below the
\* roots with different elevation ranges, neither of them 0/0.
C18_Witness ==
    /\ pc = "returned"
    /\ UseElevationRangeSource
    /\ \E k1 \in DOMAIN m_tileKeyEntries, k2 \in DOMAIN m_tileKeyEntries :
          /\ m_tileKeyEntries[k1].minElevation > 0
          /\ m_tileKeyEntries[k2].minElevation > m_tileKeyEntries[k1].minElevation
          /\ m_tileKeyEntries[k2].maxElevation # m_tileKeyEntries[k1].maxElevation

\* C19: the map of a call is closed under parents within an offset: for every
\* entry of level > 0 the entry of its parent tile key with the same offset
\* is in the map, the parent's level is at most maxTileLevel and some data
\* source, asked with its own zoom level, votes to subdivide the parent; and
\* the offset of every entry is the offset of a root of the root list.
C19_ClosedUnderParents ==
    InCall =>
       \A k \in DOMAIN m_tileKeyEntries :
          LET e == m_tileKeyEntries[k]
          IN  /\ \E i \in 1..Len(m_rootTileKeys) : m_rootTileKeys[i].offset = e.offset
              /\ e.tileKey.level > 0 =>
                    LET parent == Parent(e.tileKey)
                        parentKey == GetKeyForTileKeyAndOffset(parent, e.offset)
                    IN  /\ parentKey \in DOMAIN m_tileKeyEntries
                        /\ m_tileKeyEntries[parentKey].tileKey = parent
                        /\ m_tileKeyEntries[parentKey].offset = e.offset
                        /\ parent.level <= args.maxTileLevel
                        /\ \E i \in 1..Len(args.dataSources) :
                              ShouldSubdivide(args.dataSources[i],
                                              args.zoomLevels[i], parent)

\* C19 witness: a call returned an entry two levels below a root whose
\* offset is not 0, among roots of several offsets.
C19_Witness ==
    /\ pc = "returned"
    /\ Len(m_rootTileKeys) > 1
    /\ \E k \in DOMAIN m_tileKeyEntries :
          /\ m_tileKeyEntries[k].tileKey.level = 2
          /\ m_tileKeyEntries[k].offset # 0

\* C20: in a call that uses the elevation source, the range of a child is
\* read before the child's area is computed: every child whose area was
\* computed had its range read, and between the two steps the child's range
\* is read and its area is not computed yet; calculationFinal is false as
\* soon as one reading is not FinalPrecise, also when that child's area then
\* turns out 0; and by the return the range of each of the four children of
\* every subdivided entry was read.
C20_QueriedBeforeAreaTest ==
    (InCall /\ UseElevationRangeSource) =>
       /\ \A t \in tested :
             \E q \in queried : q.tileKey = t.tileKey /\ q.offset = t.offset
       /\ pc = "area" =>
             LET childTileKey == GetSubTileKeys(tileEntry.tileKey)[childIndex]
             IN  /\ \E q \in queried :
                       q.tileKey = childTileKey /\ q.offset = tileEntry.offset
                 /\ ~\E t \in tested :
                       t.tileKey = childTileKey /\ t.offset = tileEntry.offset
       /\ (\E q \in queried : q.calculationStatus # "FinalPrecise")
             => ~calculationFinal
       /\ pc = "returned" =>
             /\ (\E q \in queried : q.calculationStatus # "FinalPrecise")
                   => ~result.calculationFinal
             /\ \A e \in popped :
                   e.decision = "subdivide" =>
                      Cardinality({ q.tileKey : q \in ChildrenOf(e, queried) }) = 4

\* C20 witness: a call returned calculationFinal = false although every child
\* with a reading other than FinalPrecise was pruned with area 0 and is not
\* in the map.
C20_Witness ==
    /\ pc = "returned"
    /\ UseElevationRangeSource
    /\ ~result.calculationFinal
    /\ \A q \in queried :
          q.calculationStatus # "FinalPrecise" =>
             /\ [tileKey |-> q.tileKey, offset |-> q.offset, area |-> 0] \in tested
             /\ GetKeyForTileKeyAndOffset(q.tileKey, q.offset)
                   \notin DOMAIN m_tileKeyEntries

\* C21: a compute call on an instance on which updateFrustum was never
\* called starts from an empty root list: the map and the work list are
\* empty throughout, no entry is popped (so no data source is asked and no
\* tile is subdivided), no elevation range is read and no area computed, and
\* the call returns an empty map with calculationFinal = true.
C21_ComputeBeforeUpdateFrustum ==
    (InCall /\ ~Updated) =>
       /\ m_rootTileKeys = << >>
       /\ m_tileKeyEntries = EmptyMap
       /\ workList = << >>
       /\ pc \in {"loop", "returned"}
       /\ popped = {}
       /\ tested = {}
       /\ queried = {}
       /\ calculationFinal
       /\ failedAssert = "none"
       /\ pc = "returned" =>
             /\ result.returned
             /\ result.calculationFinal
             /\ ResultEntries(result) = EmptyMap

\* C21 witness: before any updateFrustum, a call with a data source that
\* always votes yes and an elevation source with approximate ranges returned.
C21_Witness ==
    /\ pc = "returned"
    /\ ~Updated
    /\ result.returned
    /\ args.dataSources = << "always" >>
    /\ UseElevationRangeSource
    /\ args.elevationRangeSource.approximate # {}

====
